---- MODULE Spec2Model ----
(***************************************************************************)
(* Model of app.py: the /ask streaming relay, the /reset handler and the   *)
(* process-wide user_histories mapping.  Python lists are objects: the     *)
(* mapping holds references into a heap, so the in-place append of the     *)
(* finally block and the rebinding at lines 211 and 253 are kept apart.    *)
(* Requests run on threads of the development server; a request advances   *)
(* one shared-state access at a time.                                      *)
(***************************************************************************)
EXTENDS Integers, Sequences, FiniteSets, TLC

\* ---------------------------------------------------------------- bounds
NumThreads == 2     \* requests the server handles at once
MaxAsks == 2        \* /ask requests received in a run
NumUsers == 2       \* browsers holding a user_id cookie
MaxFragments == 2   \* fragments one stream yields before it ends
MaxResets == 1      \* /reset requests received in a run

\* ------------------------------------------------------ program constants
TrimThreshold == 120
KeepLast == 100

Threads == 1..NumThreads
Cookies == 1..NumUsers
NoCookie == 0
\* str(uuid.uuid4()) in the n-th /ask: an id no cookie and no other request has
Uuid4(n) == NumUsers + n
UserIds == 1..(NumUsers + MaxAsks)

\* ------------------------------------------------------------------ text
\* A text is a sequence of one-character strings.
Whitespace == {" ", "\n"}

RECURSIVE lstrip(_)
lstrip(s) == IF s # <<>> /\ Head(s) \in Whitespace THEN lstrip(Tail(s)) ELSE s

RECURSIVE rstrip(_)
rstrip(s) ==
  IF s # <<>> /\ s[Len(s)] \in Whitespace THEN rstrip(SubSeq(s, 1, Len(s) - 1)) ELSE s

\* strips the leading whitespace only
stripLeading(s) == lstrip(s)
strip(s) == rstrip(lstrip(s))

\* request.get_json(silent=True) or {}  ;  data.get("message") or ""
Body(present, message) == [present |-> present, message |-> message]
NoBody == Body(FALSE, <<>>)
MessageOf(d) == IF d.present THEN d.message ELSE <<>>
\* the message as sent, not stripped
UserMessageRaw(d) == MessageOf(d)
UserMessage(d) == strip(MessageOf(d))

\* `if x:` on a text
Truthy(t) == t # <<>>

\* commits the assistant turn whatever the text
ShouldCommitAlways(p) == TRUE
\* line 245: if partial_answer
ShouldCommit(p) == Truthy(p)

system_content == <<"s", "y", "s">>
Turn(role, content) == [role |-> role, content |-> content]
SystemTurn == Turn("system", system_content)

\* "\n\n[Stream error: " + str(e) + "]"
err_msg(e) == <<"\n", "\n", "[", "!", ":", " ">> \o e \o <<"]">>

\* hist[-101:], which loses the system turn
TrimmedListNoSystem(h) == SubSeq(h, Len(h) - KeepLast, Len(h))
\* hist = [hist[0]] + hist[-100:]
TrimmedList(h) == <<h[1]>> \o SubSeq(h, Len(h) - KeepLast + 1, Len(h))

\* len(hist) > 120
NeedsTrim(h) == Len(h) > TrimThreshold

\* ------------------------------------------------------------ the inputs
Messages == { NoBody, Body(TRUE, <<>>), Body(TRUE, <<" ", "\n">>),
              Body(TRUE, <<" ", "h", "i", "\n">>) }
\* The reply of the upstream model, fragment by fragment; a chunk carries the
\* next fragment, or no text (None or "").
Fragment(i) == IF i % 2 = 1 THEN <<"H", "e", "l">> ELSE <<"l", "o">>
ChunkTexts(n) == { <<>>, Fragment(n + 1) }
Errors == { <<"x">> }

\* ------------------------------------------------------------- the heap
\* Python lists are objects.  A list is named after the place that builds it
\* and the request that runs it: "init" line 202, "copy" line 205, "dflt" line
\* 247, "trim" line 252; "pre" is the list a returning user already has.
Obj(site, n) == <<site, n>>
ObjIds == ({"pre"} \X Cookies) \cup ({"init", "copy", "dflt", "trim"} \X (1..MaxAsks))
NoObj == <<"none", 0>>

Digit(i) == <<"0", "1", "2", "3", "4", "5", "6", "7", "8", "9">>[i + 1]
Num(i) == <<Digit(i \div 100), Digit((i \div 10) % 10), Digit(i % 10)>>
\* A history of n entries left by earlier conversation: the system turn, then
\* user and assistant turns in alternation (entry i carries its position).
PriorTurn(i) == IF i = 1 THEN SystemTurn
                ELSE IF i % 2 = 0 THEN Turn("user", <<"q">> \o Num(i))
                ELSE Turn("assistant", <<"r">> \o Num(i))
PriorHistory(n) == [i \in 1..n |-> PriorTurn(i)]
\* lengths at the start: no history, a short one, and two at the trim threshold
PriorLensOf(u) == IF u = 1 THEN {0, TrimThreshold - 2, TrimThreshold - 1} ELSE {3}

VARIABLES
  api_key,          \* client.api_key is set
  user_histories,   \* user id -> list object, NoObj when the key is absent
  heap,             \* list object -> its elements
  asks,             \* /ask requests received
  resets,           \* /reset requests received
  pc,               \* where the request of each thread is
  serial,           \* which /ask it is, counted from 1
  data,             \* its JSON body
  user_id, user_message, history, hist, partial_answer,   \* locals of ask/generate
  upstream,         \* fragments the upstream iterator delivered, in order
  emitted,          \* fragments yielded to the caller, in order
  called,           \* client.chat.completions.create was called
  status,           \* HTTP status of the response, 0 while none
  path,             \* how the stream went: "", "ok", "error", "cancel"
  fresh,            \* until the stream starts: the user had no stored list when
                    \* the request arrived
  wrote,            \* roles of the turns the request put at the end of its user's list
  overlap           \* another request of the same user ran meanwhile

vars == << api_key, user_histories, heap, asks, resets, pc, serial, data, user_id,
           user_message, history, hist, partial_answer, upstream, emitted,
           called, status, path, fresh, wrote, overlap >>

StoredList(u) == IF user_histories[u] = NoObj THEN <<>> ELSE heap[user_histories[u]]

Range(f) == {f[x] : x \in DOMAIN f}

\* list objects something refers to
Live(uh, hi, hs) == (Range(uh) \cup Range(hi) \cup Range(hs)) \ {NoObj}
\* lists nothing refers to are freed
Collect(h, uh, hi, hs) == [o \in ObjIds |-> IF o \in Live(uh, hi, hs) THEN h[o] ELSE <<>>]

\* ------------------------------------------------------------ observation
\* What the request of thread t did to the stored list of its user in this
\* step: the role of the user or assistant turn it left at the end of it.
Written(t) ==
  LET u == user_id'[t] IN
  IF u \in UserIds /\ user_histories'[u] # NoObj
     /\ (user_histories'[u] # user_histories[u] \/ heap'[user_histories'[u]] # StoredList(u))
    THEN {heap'[user_histories'[u]][Len(heap'[user_histories'[u]])].role} \ {"system"}
    ELSE {}

\* another request of the same user is being served, or waits for its thread
\* to take the next one
SameUser(t) ==
  /\ user_id'[t] # 0
  /\ \E q \in Threads \ {t} : user_id'[q] = user_id'[t]

Observe(t) ==
  /\ wrote' = [wrote EXCEPT ![t] = @ \cup Written(t)]
  /\ fresh' = [fresh EXCEPT ![t] =
       IF pc[t] = "idle" /\ user_id'[t] # 0 THEN user_histories[user_id'[t]] = NoObj
       ELSE @ /\ pc'[t] \in {"L201", "L202", "L205", "L211", "L256"}]
  /\ overlap' = [q \in Threads |-> overlap[q] \/ SameUser(q)]

\* ------------------------------------------------------------------ Init
Init ==
  /\ api_key \in BOOLEAN
  /\ \E n \in [Cookies -> 0..TrimThreshold] :
       /\ \A u \in Cookies : n[u] \in PriorLensOf(u)
       /\ user_histories = [u \in UserIds |->
            IF u \in Cookies /\ n[u] > 0 THEN Obj("pre", u) ELSE NoObj]
       /\ heap = [o \in ObjIds |-> IF o[1] = "pre" THEN PriorHistory(n[o[2]]) ELSE <<>>]
  /\ asks = 0
  /\ resets = 0
  /\ pc = [t \in Threads |-> "idle"]
  /\ serial = [t \in Threads |-> 0]
  /\ data = [t \in Threads |-> NoBody]
  /\ user_id = [t \in Threads |-> 0]
  /\ user_message = [t \in Threads |-> <<>>]
  /\ history = [t \in Threads |-> NoObj]
  /\ hist = [t \in Threads |-> NoObj]
  /\ partial_answer = [t \in Threads |-> <<>>]
  /\ upstream = [t \in Threads |-> <<>>]
  /\ emitted = [t \in Threads |-> <<>>]
  /\ called = [t \in Threads |-> FALSE]
  /\ status = [t \in Threads |-> 0]
  /\ path = [t \in Threads |-> ""]
  /\ fresh = [t \in Threads |-> FALSE]
  /\ wrote = [t \in Threads |-> {}]
  /\ overlap = [t \in Threads |-> FALSE]

\* ------------------------------------------------------------------- ask
\* the message check of lines 192-195 put before the credential check
VerdictSwapped(d) ==
  IF ~Truthy(UserMessage(d)) THEN 400 ELSE IF ~api_key THEN 500 ELSE 0
\* the message check testing for a missing message only
VerdictNoneOnly(d) == IF ~api_key THEN 500 ELSE 0
\* lines 189-195: abort(500) without a credential, 400 for an empty message,
\* 0 when the request goes on
Verdict(d) ==
  IF ~api_key THEN 500 ELSE IF ~Truthy(UserMessage(d)) THEN 400 ELSE 0

\* lines 189-198: the credential check, the body, the cookie
AskValidate(t, d, c) ==
  /\ pc[t] = "idle"
  /\ \A q \in Threads : q < t => pc[q] # "idle"
  /\ asks < MaxAsks
  /\ asks' = asks + 1
  /\ serial' = [serial EXCEPT ![t] = asks']
  /\ data' = [data EXCEPT ![t] = d]
  /\ IF Verdict(d) # 0
       THEN /\ status' = [status EXCEPT ![t] = Verdict(d)]
            /\ pc' = [pc EXCEPT ![t] = "done"]
            /\ UNCHANGED << user_id, user_message >>
       ELSE /\ user_message' = [user_message EXCEPT ![t] = UserMessage(d)]
            /\ user_id' = [user_id EXCEPT ![t] = IF c # NoCookie THEN c ELSE Uuid4(asks')]
            /\ pc' = [pc EXCEPT ![t] = "L201"]
            /\ UNCHANGED status
  /\ UNCHANGED << api_key, user_histories, heap, resets, history, hist, partial_answer,
                  upstream, emitted, called, path >>
  /\ Observe(t)

\* line 201: if user_id not in user_histories
AskCheck(t) ==
  /\ pc[t] = "L201"
  /\ pc' = [pc EXCEPT ![t] = IF user_histories[user_id[t]] = NoObj THEN "L202" ELSE "L205"]
  /\ UNCHANGED << api_key, user_histories, heap, asks, resets, serial, data, user_id,
                  user_message, history, hist, partial_answer, upstream, emitted, called,
                  status, path >>
  /\ Observe(t)

\* line 202: user_histories[user_id] = [system turn]
AskInit(t) ==
  /\ pc[t] = "L202"
  /\ user_histories' = [user_histories EXCEPT ![user_id[t]] = Obj("init", serial[t])]
  /\ heap' = Collect([heap EXCEPT ![Obj("init", serial[t])] = <<SystemTurn>>],
                     user_histories', history, hist)
  /\ pc' = [pc EXCEPT ![t] = "L205"]
  /\ UNCHANGED << api_key, asks, resets, serial, data, user_id, user_message, history, hist,
                  partial_answer, upstream, emitted, called, status, path >>
  /\ Observe(t)

\* as AskCopy, without the append of line 207
AskCopyNoAppend(t) ==
  /\ pc[t] = "L205"
  /\ IF user_histories[user_id[t]] = NoObj
       THEN /\ status' = [status EXCEPT ![t] = 500]
            /\ pc' = [pc EXCEPT ![t] = "done"]
            /\ UNCHANGED << heap, history >>
       ELSE /\ history' = [history EXCEPT ![t] = Obj("copy", serial[t])]
            /\ heap' = [heap EXCEPT ![Obj("copy", serial[t])] = StoredList(user_id[t])]
            /\ pc' = [pc EXCEPT ![t] = "L211"]
            /\ UNCHANGED status
  /\ UNCHANGED << api_key, user_histories, asks, resets, serial, data, user_id, user_message,
                  hist, partial_answer, upstream, emitted, called, path >>
  /\ Observe(t)

\* as AskCopy, without the copy: history is the stored list itself
AskCopyShared(t) ==
  /\ pc[t] = "L205"
  /\ IF user_histories[user_id[t]] = NoObj
       THEN /\ status' = [status EXCEPT ![t] = 500]
            /\ pc' = [pc EXCEPT ![t] = "done"]
            /\ UNCHANGED << heap, history >>
       ELSE /\ history' = [history EXCEPT ![t] = user_histories[user_id[t]]]
            /\ heap' = [heap EXCEPT ![user_histories[user_id[t]]] =
                          Append(@, Turn("user", user_message[t]))]
            /\ pc' = [pc EXCEPT ![t] = "L211"]
            /\ UNCHANGED status
  /\ UNCHANGED << api_key, user_histories, asks, resets, serial, data, user_id, user_message,
                  hist, partial_answer, upstream, emitted, called, path >>
  /\ Observe(t)

\* lines 205-207: history = list(user_histories[user_id]); history.append(user turn)
\* (KeyError, answered 500, when a reset removed the key since line 201)
AskCopy(t) ==
  /\ pc[t] = "L205"
  /\ IF user_histories[user_id[t]] = NoObj
       THEN /\ status' = [status EXCEPT ![t] = 500]
            /\ pc' = [pc EXCEPT ![t] = "done"]
            /\ UNCHANGED << heap, history >>
       ELSE /\ history' = [history EXCEPT ![t] = Obj("copy", serial[t])]
            /\ heap' = [heap EXCEPT ![Obj("copy", serial[t])] =
                          Append(StoredList(user_id[t]), Turn("user", user_message[t]))]
            /\ pc' = [pc EXCEPT ![t] = "L211"]
            /\ UNCHANGED status
  /\ UNCHANGED << api_key, user_histories, asks, resets, serial, data, user_id, user_message,
                  hist, partial_answer, upstream, emitted, called, path >>
  /\ Observe(t)

\* as AskStore, with the assignment of line 211 left out
AskStoreSkipped(t) ==
  /\ pc[t] = "L211"
  /\ status' = [status EXCEPT ![t] = 200]
  /\ pc' = [pc EXCEPT ![t] = "L256"]
  /\ UNCHANGED << api_key, user_histories, heap, asks, resets, serial, data, user_id,
                  user_message, history, hist, partial_answer, upstream, emitted, called,
                  path >>
  /\ Observe(t)

\* line 211: user_histories[user_id] = history ; line 256: the streaming response
AskStore(t) ==
  /\ pc[t] = "L211"
  /\ user_histories' = [user_histories EXCEPT ![user_id[t]] = history[t]]
  /\ heap' = Collect(heap, user_histories', history, hist)
  /\ status' = [status EXCEPT ![t] = 200]
  /\ pc' = [pc EXCEPT ![t] = "L256"]
  /\ UNCHANGED << api_key, asks, resets, serial, data, user_id, user_message, history, hist,
                  partial_answer, upstream, emitted, called, path >>
  /\ Observe(t)

\* -------------------------------------------------------------- generate
\* lines 218-222: client.chat.completions.create(model, messages=history, stream=True)
\* (history is not read again)
GenCreate(t) ==
  /\ pc[t] = "L256"
  /\ called' = [called EXCEPT ![t] = TRUE]
  /\ history' = [history EXCEPT ![t] = NoObj]
  /\ heap' = Collect(heap, user_histories, history', hist)
  /\ pc' = [pc EXCEPT ![t] = "L224"]
  /\ UNCHANGED << api_key, user_histories, asks, resets, serial, data, user_id, user_message,
                  hist, partial_answer, upstream, emitted, status, path >>
  /\ Observe(t)

\* as GenChunk, with each fragment put into the stored list as it arrives
GenChunkCommitting(t, text) ==
  /\ pc[t] = "L224"
  /\ Len(upstream[t]) < MaxFragments
  /\ upstream' = [upstream EXCEPT ![t] = IF text # <<>> THEN Append(@, text) ELSE @]
  /\ IF Truthy(text)
       THEN /\ partial_answer' = [partial_answer EXCEPT ![t] = @ \o text]
            /\ emitted' = [emitted EXCEPT ![t] = Append(@, text)]
            /\ heap' = IF user_histories[user_id[t]] = NoObj THEN heap
                       ELSE [heap EXCEPT ![user_histories[user_id[t]]] =
                               Append(@, Turn("assistant", text))]
       ELSE UNCHANGED << partial_answer, emitted, heap >>
  /\ UNCHANGED << api_key, user_histories, asks, resets, serial, pc, data, user_id,
                  user_message, history, hist, called, status, path >>
  /\ Observe(t)

\* lines 224-236: one chunk of the upstream iterator; `if text:` accumulate and
\* yield.  The generator stays suspended at the yield until the caller asks for
\* the next fragment; nothing else can tell the two apart.
GenChunk(t, text) ==
  /\ pc[t] = "L224"
  /\ Len(upstream[t]) < MaxFragments
  /\ upstream' = [upstream EXCEPT ![t] = IF text # <<>> THEN Append(@, text) ELSE @]
  /\ IF Truthy(text)
       THEN /\ partial_answer' = [partial_answer EXCEPT ![t] = @ \o text]
            /\ emitted' = [emitted EXCEPT ![t] = Append(@, text)]
       ELSE UNCHANGED << partial_answer, emitted >>
  /\ UNCHANGED << api_key, user_histories, heap, asks, resets, serial, pc, data, user_id,
                  user_message, history, hist, called, status, path >>
  /\ Observe(t)

\* line 224: the upstream iterator is exhausted; the try block ends
GenEnd(t) ==
  /\ pc[t] = "L224"
  /\ path' = [path EXCEPT ![t] = "ok"]
  /\ pc' = [pc EXCEPT ![t] = "L245"]
  /\ UNCHANGED << api_key, user_histories, heap, asks, resets, serial, data, user_id,
                  user_message, history, hist, partial_answer, upstream, emitted, called,
                  status >>
  /\ Observe(t)

\* as GenRaise, with the diagnostic text added to partial_answer as well
GenRaiseAccumulating(t, e) ==
  /\ pc[t] \in {"L256", "L224"}
  /\ called' = [called EXCEPT ![t] = TRUE]
  /\ history' = [history EXCEPT ![t] = NoObj]
  /\ heap' = Collect(heap, user_histories, history', hist)
  /\ emitted' = [emitted EXCEPT ![t] = Append(@, err_msg(e))]
  /\ partial_answer' = [partial_answer EXCEPT ![t] = @ \o err_msg(e)]
  /\ path' = [path EXCEPT ![t] = "error"]
  /\ pc' = [pc EXCEPT ![t] = "L245"]
  /\ UNCHANGED << api_key, user_histories, asks, resets, serial, data, user_id,
                  user_message, hist, upstream, status >>
  /\ Observe(t)

\* as GenRaise, without the except branch: the exception leaves the generator
\* through the finally block and no diagnostic is yielded
GenRaiseAborts(t, e) ==
  /\ pc[t] \in {"L256", "L224"}
  /\ called' = [called EXCEPT ![t] = TRUE]
  /\ history' = [history EXCEPT ![t] = NoObj]
  /\ heap' = Collect(heap, user_histories, history', hist)
  /\ path' = [path EXCEPT ![t] = "error"]
  /\ pc' = [pc EXCEPT ![t] = "L245"]
  /\ UNCHANGED << api_key, user_histories, asks, resets, serial, data, user_id, user_message,
                  hist, partial_answer, upstream, emitted, status >>
  /\ Observe(t)

\* lines 238-242: the create call or the iteration raises; yield err_msg, then
\* the traceback
GenRaise(t, e) ==
  /\ pc[t] \in {"L256", "L224"}
  /\ called' = [called EXCEPT ![t] = TRUE]
  /\ history' = [history EXCEPT ![t] = NoObj]
  /\ heap' = Collect(heap, user_histories, history', hist)
  /\ emitted' = [emitted EXCEPT ![t] = Append(@, err_msg(e))]
  /\ path' = [path EXCEPT ![t] = "error"]
  /\ pc' = [pc EXCEPT ![t] = "L245"]
  /\ UNCHANGED << api_key, user_histories, asks, resets, serial, data, user_id, user_message,
                  hist, partial_answer, upstream, status >>
  /\ Observe(t)

\* as Disconnect, with the commit placed after the loop and not in a finally
\* block: a closed generator runs none of it
DisconnectNoFinally(t) ==
  /\ pc[t] \in {"L256", "L224"}
  /\ pc[t] = "L224" => emitted[t] # <<>>
  /\ path' = [path EXCEPT ![t] = "cancel"]
  /\ pc' = [pc EXCEPT ![t] = "done"]
  /\ history' = [history EXCEPT ![t] = NoObj]
  /\ heap' = Collect(heap, user_histories, history', hist)
  /\ UNCHANGED << api_key, user_histories, asks, resets, serial, data, user_id, user_message,
                  hist, partial_answer, upstream, emitted, called, status >>
  /\ Observe(t)

\* the client is gone: the server closes the generator.  Suspended at the yield
\* of line 236, GeneratorExit is raised there (`except Exception` does not catch
\* it) and the finally block runs; never started, no line of the body runs.
Disconnect(t) ==
  /\ pc[t] \in {"L256", "L224"}
  /\ pc[t] = "L224" => emitted[t] # <<>>
  /\ path' = [path EXCEPT ![t] = "cancel"]
  /\ pc' = [pc EXCEPT ![t] = IF pc[t] = "L256" THEN "done" ELSE "L245"]
  /\ history' = [history EXCEPT ![t] = NoObj]
  /\ heap' = Collect(heap, user_histories, history', hist)
  /\ UNCHANGED << api_key, user_histories, asks, resets, serial, data, user_id, user_message,
                  hist, partial_answer, upstream, emitted, called, status >>
  /\ Observe(t)

\* as FinAppend, with an empty list as the default of the get
FinAppendBareDefault(t) ==
  /\ pc[t] = "L245"
  /\ IF ShouldCommit(partial_answer[t])
       THEN LET o == IF user_histories[user_id[t]] # NoObj
                       THEN user_histories[user_id[t]] ELSE Obj("dflt", serial[t])
                h == IF user_histories[user_id[t]] # NoObj THEN heap[o] ELSE <<>>
            IN /\ hist' = [hist EXCEPT ![t] = o]
               /\ heap' = [heap EXCEPT ![o] =
                             Append(h, Turn("assistant", partial_answer[t]))]
               /\ pc' = [pc EXCEPT ![t] = "L250"]
       ELSE /\ pc' = [pc EXCEPT ![t] = "done"]
            /\ UNCHANGED << heap, hist >>
  /\ UNCHANGED << api_key, user_histories, asks, resets, serial, data, user_id,
                  user_message, history, partial_answer, upstream, emitted, called, status,
                  path >>
  /\ Observe(t)

\* lines 245-248: if partial_answer: hist = user_histories.get(user_id, [system
\* turn]); hist.append(assistant turn), in place
FinAppend(t) ==
  /\ pc[t] = "L245"
  /\ IF ShouldCommit(partial_answer[t])
       THEN LET o == IF user_histories[user_id[t]] # NoObj
                       THEN user_histories[user_id[t]] ELSE Obj("dflt", serial[t])
                h == IF user_histories[user_id[t]] # NoObj THEN heap[o] ELSE <<SystemTurn>>
            IN /\ hist' = [hist EXCEPT ![t] = o]
               /\ heap' = [heap EXCEPT ![o] =
                             Append(h, Turn("assistant", partial_answer[t]))]
               /\ pc' = [pc EXCEPT ![t] = "L250"]
       ELSE /\ pc' = [pc EXCEPT ![t] = "done"]
            /\ UNCHANGED << heap, hist >>
  /\ UNCHANGED << api_key, user_histories, asks, resets, serial, data, user_id,
                  user_message, history, partial_answer, upstream, emitted, called, status,
                  path >>
  /\ Observe(t)

\* as FinStore, with the append of line 248 run a second time
FinStoreAppendingAgain(t) ==
  /\ pc[t] = "L250"
  /\ LET twice == Append(heap[hist[t]], Turn("assistant", partial_answer[t]))
         o == IF NeedsTrim(twice) THEN Obj("trim", serial[t]) ELSE hist[t]
         h == IF NeedsTrim(twice) THEN TrimmedList(twice) ELSE twice
     IN /\ user_histories' = [user_histories EXCEPT ![user_id[t]] = o]
        /\ hist' = [hist EXCEPT ![t] = NoObj]
        /\ heap' = Collect([heap EXCEPT ![o] = h], user_histories', history, hist')
  /\ pc' = [pc EXCEPT ![t] = "done"]
  /\ UNCHANGED << api_key, asks, resets, serial, data, user_id, user_message, history,
                  partial_answer, upstream, emitted, called, status, path >>
  /\ Observe(t)

\* lines 250-253: if len(hist) > 120: hist = [hist[0]] + hist[-100:]
\*                user_histories[user_id] = hist ; the generator returns
FinStore(t) ==
  /\ pc[t] = "L250"
  /\ LET o == IF NeedsTrim(heap[hist[t]]) THEN Obj("trim", serial[t]) ELSE hist[t]
         h == IF NeedsTrim(heap[hist[t]]) THEN TrimmedList(heap[hist[t]]) ELSE heap[hist[t]]
     IN /\ user_histories' = [user_histories EXCEPT ![user_id[t]] = o]
        /\ hist' = [hist EXCEPT ![t] = NoObj]
        /\ heap' = Collect([heap EXCEPT ![o] = h], user_histories', history, hist')
  /\ pc' = [pc EXCEPT ![t] = "done"]
  /\ UNCHANGED << api_key, asks, resets, serial, data, user_id, user_message, history,
                  partial_answer, upstream, emitted, called, status, path >>
  /\ Observe(t)

\* the response is complete; the thread takes the next request
Finish(t) ==
  /\ pc[t] = "done"
  /\ pc' = [pc EXCEPT ![t] = "idle"]
  /\ serial' = [serial EXCEPT ![t] = 0]
  /\ data' = [data EXCEPT ![t] = NoBody]
  /\ user_id' = [user_id EXCEPT ![t] = 0]
  /\ user_message' = [user_message EXCEPT ![t] = <<>>]
  /\ partial_answer' = [partial_answer EXCEPT ![t] = <<>>]
  /\ emitted' = [emitted EXCEPT ![t] = <<>>]
  /\ called' = [called EXCEPT ![t] = FALSE]
  /\ status' = [status EXCEPT ![t] = 0]
  /\ path' = [path EXCEPT ![t] = ""]
  /\ upstream' = [upstream EXCEPT ![t] = <<>>]
  /\ fresh' = [fresh EXCEPT ![t] = FALSE]
  /\ wrote' = [wrote EXCEPT ![t] = {}]
  /\ overlap' = [overlap EXCEPT ![t] = FALSE]
  /\ UNCHANGED << api_key, user_histories, heap, asks, resets, history, hist >>

\* ----------------------------------------------------------------- reset
\* as Reset, emptying the list and leaving it under its key
ResetEmpties(c) ==
  IF c # NoCookie /\ user_histories[c] # NoObj
    THEN /\ resets < MaxResets
         /\ resets' = resets + 1
         /\ heap' = [heap EXCEPT ![user_histories[c]] = <<>>]
         /\ overlap' = [q \in Threads |-> overlap[q] \/ user_id[q] = c]
         /\ UNCHANGED << api_key, user_histories, asks, pc, serial, data, user_id,
                         user_message, history, hist, partial_answer, upstream, emitted,
                         called, status, path, wrote, fresh >>
    ELSE UNCHANGED vars

\* as Reset, clearing the whole dictionary
ResetClearsAll(c) ==
  IF c # NoCookie /\ user_histories[c] # NoObj
    THEN /\ resets < MaxResets
         /\ resets' = resets + 1
         /\ user_histories' = [u \in UserIds |-> NoObj]
         /\ heap' = Collect(heap, user_histories', history, hist)
         /\ overlap' = [q \in Threads |-> overlap[q] \/ user_id[q] = c]
         /\ UNCHANGED << api_key, asks, pc, serial, data, user_id, user_message, history,
                         hist, partial_answer, upstream, emitted, called, status, path,
                         wrote, fresh >>
    ELSE UNCHANGED vars

\* lines 260-262: if user_id and user_id in user_histories: user_histories.pop(user_id, None)
\* (MaxResets counts the resets that remove a history; the others change nothing)
Reset(c) ==
  IF c # NoCookie /\ user_histories[c] # NoObj
    THEN /\ resets < MaxResets
         /\ resets' = resets + 1
         /\ user_histories' = [user_histories EXCEPT ![c] = NoObj]
         /\ heap' = Collect(heap, user_histories', history, hist)
         /\ overlap' = [q \in Threads |-> overlap[q] \/ user_id[q] = c]
         /\ UNCHANGED << api_key, asks, pc, serial, data, user_id, user_message, history,
                         hist, partial_answer, upstream, emitted, called, status, path,
                         wrote, fresh >>
    ELSE UNCHANGED vars

Next ==
  \/ \E t \in Threads, d \in Messages, c \in Cookies \cup {NoCookie} : AskValidate(t, d, c)
  \/ \E t \in Threads : AskCheck(t)
  \/ \E t \in Threads : AskInit(t)
  \/ \E t \in Threads : AskCopy(t)
  \/ \E t \in Threads : AskStore(t)
  \/ \E t \in Threads : GenCreate(t)
  \/ \E t \in Threads : \E x \in ChunkTexts(Len(upstream[t])) : GenChunk(t, x)
  \/ \E t \in Threads : GenEnd(t)
  \/ \E t \in Threads, e \in Errors : GenRaise(t, e)
  \/ \E t \in Threads : Disconnect(t)
  \/ \E t \in Threads : FinAppend(t)
  \/ \E t \in Threads : FinStore(t)
  \/ \E t \in Threads : Finish(t)
  \/ \E c \in Cookies \cup {NoCookie} : Reset(c)

Spec == Init /\ [][Next]_vars

\* The requests of a user handled one at a time: no step lets a request, or a
\* reset, of a user meet another request of that user.
OneAtATime == \A t \in Threads : ~overlap'[t]

SeqNext ==
  \/ \E t \in Threads, d \in Messages, c \in Cookies \cup {NoCookie} :
       AskValidate(t, d, c) /\ OneAtATime
  \/ \E t \in Threads : AskCheck(t) /\ OneAtATime
  \/ \E t \in Threads : AskInit(t) /\ OneAtATime
  \/ \E t \in Threads : AskCopy(t) /\ OneAtATime
  \/ \E t \in Threads : AskStore(t) /\ OneAtATime
  \/ \E t \in Threads : GenCreate(t) /\ OneAtATime
  \/ \E t \in Threads : \E x \in ChunkTexts(Len(upstream[t])) : GenChunk(t, x) /\ OneAtATime
  \/ \E t \in Threads : GenEnd(t) /\ OneAtATime
  \/ \E t \in Threads, e \in Errors : GenRaise(t, e) /\ OneAtATime
  \/ \E t \in Threads : Disconnect(t) /\ OneAtATime
  \/ \E t \in Threads : FinAppend(t) /\ OneAtATime
  \/ \E t \in Threads : FinStore(t) /\ OneAtATime
  \/ \E t \in Threads : Finish(t) /\ OneAtATime
  \/ \E c \in Cookies \cup {NoCookie} : Reset(c) /\ OneAtATime

SeqSpec == Init /\ [][SeqNext]_vars

\* The server keeps iterating the response (line 256), the upstream iterator
\* delivers its next chunk, ends or raises, and the finally block runs on.
Run(t) ==
  \/ GenCreate(t)
  \/ \E x \in ChunkTexts(Len(upstream[t])) : GenChunk(t, x)
  \/ GenEnd(t)
  \/ \E e \in Errors : GenRaise(t, e)
  \/ Disconnect(t)
  \/ FinAppend(t)
  \/ FinStore(t)


\* the starts with the longest history, where the trim is within reach
LiveInit == Init /\ \A u \in Cookies : \A n \in PriorLensOf(u) : Len(StoredList(u)) >= n

LiveSpec == LiveInit /\ [][Next]_vars /\ \A t \in Threads : WF_vars(Run(t))

\* ======================================================================
\* The claims
\* ======================================================================
IsWhite(m) == \A i \in 1..Len(m) : m[i] \in {" ", "\n"}
\* the message without the whitespace around it
Trimmed(m) ==
  IF IsWhite(m) THEN <<>>
  ELSE LET ink == {i \in 1..Len(m) : m[i] \notin {" ", "\n"}}
           lo == CHOOSE i \in ink : \A j \in ink : i <= j
           hi == CHOOSE i \in ink : \A j \in ink : j <= i
       IN SubSeq(m, lo, hi)
IsBlank(d) == ~d.present \/ IsWhite(d.message)

RECURSIVE Concat(_)
Concat(fs) == IF fs = <<>> THEN <<>> ELSE Head(fs) \o Concat(Tail(fs))

EndsWith(h, tail) ==
  /\ Len(h) >= Len(tail)
  /\ SubSeq(h, Len(h) - Len(tail) + 1, Len(h)) = tail

IsDiagnostic(x) == Len(x) >= 4 /\ SubSeq(x, 1, 3) = <<"\n", "\n", "[">> /\ x[Len(x)] = "]"

\* the request of thread t is over, its stream having ended without an error,
\* and no other request of its user ran since it arrived
CompletedAlone(t) == pc[t] = "done" /\ path[t] = "ok" /\ ~overlap[t]

\* C1 as stated: after an ask whose stream completes, with no other request of
\* the user in flight, the stored history ends with the user turn holding the
\* trimmed message, followed by the assistant turn holding the concatenation of
\* the fragments emitted.
C1_AsStated ==
  \A t \in Threads : CompletedAlone(t) =>
    EndsWith(StoredList(user_id[t]),
             << Turn("user", Trimmed(data[t].message)),
                Turn("assistant", Concat(emitted[t])) >>)

\* C1 amended: the same, for a stream that emitted at least one fragment; a
\* stream that emitted none leaves the user turn last.
C1_ExchangeStored ==
  \A t \in Threads : CompletedAlone(t) =>
    IF emitted[t] # <<>>
      THEN EndsWith(StoredList(user_id[t]),
                    << Turn("user", Trimmed(data[t].message)),
                       Turn("assistant", Concat(emitted[t])) >>)
      ELSE EndsWith(StoredList(user_id[t]), << Turn("user", Trimmed(data[t].message)) >>)

C1_Witness ==
  \E t \in Threads :
    /\ CompletedAlone(t) /\ Len(emitted[t]) = 2
    /\ data[t].message # Trimmed(data[t].message)
    /\ EndsWith(StoredList(user_id[t]),
                << Turn("user", Trimmed(data[t].message)),
                   Turn("assistant", Concat(emitted[t])) >>)

\* C2: a request has put its user turn in the store before it calls the
\* completion API, before it emits a fragment and before it stores its
\* assistant turn.
C2_UserTurnFirst ==
  \A t \in Threads :
    (called[t] \/ emitted[t] # <<>> \/ "assistant" \in wrote[t]) => "user" \in wrote[t]

C2_Witness ==
  \E t \in Threads : called[t] /\ emitted[t] # <<>> /\ wrote[t] = {"user", "assistant"}

\* C3: when the upstream raises after k >= 1 fragments, the caller gets those
\* k fragments in order and then one diagnostic fragment, the response is the
\* 200 stream, and the assistant turn stored is the k fragments joined, without
\* the diagnostic text.
C3_PartialKept ==
  \A t \in Threads : (path[t] = "error" /\ upstream[t] # <<>>) =>
    /\ Len(emitted[t]) = Len(upstream[t]) + 1
    /\ SubSeq(emitted[t], 1, Len(upstream[t])) = upstream[t]
    /\ IsDiagnostic(emitted[t][Len(emitted[t])])
    /\ status[t] = 200
    /\ (pc[t] = "done" /\ ~overlap[t]) =>
         EndsWith(StoredList(user_id[t]), << Turn("assistant", Concat(upstream[t])) >>)

C3_Witness ==
  \E t \in Threads :
    /\ path[t] = "error" /\ Len(upstream[t]) = 2 /\ pc[t] = "done" /\ ~overlap[t]
    /\ EndsWith(StoredList(user_id[t]), << Turn("assistant", Concat(upstream[t])) >>)

\* the histories of the store, by value
StoreView == [u \in UserIds |-> StoredList(u)]

\* C4: when the upstream fails before any fragment, the caller gets the one
\* diagnostic fragment and nothing else, no assistant turn is added, and the
\* request changes the history only by its user turn: the steps before the
\* store step leave the histories as they are (a user without a history gets
\* the system turn), the store step appends the user turn (no other request of
\* the user running) and every later step of the request leaves the store as
\* it is.
C4_Inv ==
  \A t \in Threads : (path[t] = "error" /\ upstream[t] = <<>>) =>
    /\ Len(emitted[t]) = 1 /\ IsDiagnostic(emitted[t][1])
    /\ status[t] = 200
    /\ wrote[t] = {"user"}
    /\ (pc[t] = "done" /\ ~overlap[t]) =>
         EndsWith(StoredList(user_id[t]), << Turn("user", Trimmed(data[t].message)) >>)

C4_Step ==
  \A t \in Threads :
    /\ (pc[t] \in {"L201", "L205"} /\ pc'[t] # pc[t]) => StoreView' = StoreView
    /\ (pc[t] = "L202" /\ pc'[t] # pc[t]) =>
         StoreView' = [StoreView EXCEPT ![user_id[t]] = << SystemTurn >>]
    /\ (pc[t] = "L211" /\ pc'[t] = "L256" /\ ~overlap'[t]) =>
         StoreView' = [StoreView EXCEPT ![user_id[t]] =
                         Append(@, Turn("user", Trimmed(data[t].message)))]
    /\ (pc[t] \in {"L256", "L224", "L245"} /\ pc'[t] # pc[t] /\ upstream'[t] = <<>>) =>
         StoreView' = StoreView

C4_NoReplyStored == [](C4_Inv) /\ [][C4_Step]_vars

C4_Witness ==
  \E t \in Threads :
    /\ path[t] = "error" /\ upstream[t] = <<>> /\ pc[t] = "done" /\ ~overlap[t]
    /\ Len(emitted[t]) = 1
    /\ Len(StoredList(user_id[t])) > 2

\* C5: an ask with an empty, whitespace-only or missing message is answered in
\* one step that leaves the whole store as it was; no stream is opened and the
\* completion API is not called.
C5_Inv ==
  \A t \in Threads : (pc[t] # "idle" /\ IsBlank(data[t])) =>
    /\ pc[t] = "done" /\ status[t] \in {400, 500}
    /\ ~called[t] /\ emitted[t] = <<>> /\ wrote[t] = {}

C5_Step ==
  \A t \in Threads : (pc[t] = "idle" /\ pc'[t] # "idle" /\ IsBlank(data'[t])) =>
    /\ pc'[t] = "done"
    /\ user_histories' = user_histories /\ heap' = heap

C5_BlankChangesNothing == [](C5_Inv) /\ [][C5_Step]_vars

C5_Witness ==
  \E t \in Threads :
    /\ pc[t] = "done" /\ data[t].present /\ data[t].message # <<>> /\ IsBlank(data[t])
    /\ \E u \in UserIds : Len(StoredList(u)) > 3

\* C6 as stated: an ask with a blank message is answered 400 in every server
\* state, the credential configured or not.
C6_AsStated ==
  \A t \in Threads : (pc[t] # "idle" /\ IsBlank(data[t])) => status[t] = 400

\* C6 amended: with the credential configured, an ask with a blank message is
\* answered 400, whatever the store holds; without it the answer is 500.
C6_Blank400 ==
  \A t \in Threads : (pc[t] # "idle" /\ IsBlank(data[t])) =>
    status[t] = IF api_key THEN 400 ELSE 500

C6_Witness ==
  \E t \in Threads :
    /\ pc[t] = "done" /\ IsBlank(data[t]) /\ status[t] = 400
    /\ \E u \in UserIds : Len(StoredList(u)) > 3

\* C7: without a credential every ask is answered 500 in one step: no stream,
\* no call of the completion API, the store as it was.
C7_Inv ==
  ~api_key => \A t \in Threads :
    /\ pc[t] \in {"idle", "done"} /\ (pc[t] = "done" => status[t] = 500)
    /\ ~called[t] /\ emitted[t] = <<>> /\ wrote[t] = {}

C7_Step ==
  \A t \in Threads : (~api_key /\ pc[t] = "idle" /\ pc'[t] # "idle") =>
    /\ status'[t] = 500
    /\ user_histories' = user_histories /\ heap' = heap

C7_NoCredential500 == [](C7_Inv) /\ [][C7_Step]_vars

C7_Witness ==
  \E t \in Threads : ~api_key /\ pc[t] = "done" /\ status[t] = 500 /\ ~IsBlank(data[t])

\* C8: a reset removes the history of its user; the next ask of that user, no
\* other request of the user running, stores exactly the system turn followed
\* by its own user turn.
C8_Inv ==
  \A t \in Threads : (pc[t] = "L256" /\ fresh[t] /\ ~overlap[t]) =>
    StoredList(user_id[t]) = << SystemTurn, Turn("user", Trimmed(data[t].message)) >>

C8_Step ==
  resets' # resets =>
    \E c \in Cookies :
      /\ user_histories[c] # NoObj
      /\ user_histories' = [user_histories EXCEPT ![c] = NoObj]

C8_FreshAfterReset == [](C8_Inv) /\ [][C8_Step]_vars

C8_Witness ==
  \E t \in Threads :
    /\ resets = 1 /\ user_id[t] = NumUsers
    /\ pc[t] = "L256" /\ fresh[t] /\ ~overlap[t]
    /\ Len(StoredList(user_id[t])) = 2

\* C9 as stated: once an append is complete (no request sits between its
\* append and its trim), no stored history has more than 120 entries.
C9_AsStated ==
  \A u \in UserIds :
    (\A t \in Threads : ~(pc[t] = "L250" /\ user_id[t] = u)) => Len(StoredList(u)) <= 120

\* C10: when the trim fires, the list stored has 101 entries: the first entry
\* of the list before, then its last 100 in their order; with no other request
\* of the user running, the last two are the user turn and the assistant turn
\* of the request.
C10_Step ==
  \A t \in Threads :
    (pc[t] = "L250" /\ pc'[t] = "done" /\ Len(heap[hist[t]]) > 120) =>
      LET old == heap[hist[t]]
          new == StoredList(user_id[t])'
      IN /\ Len(new) = 101
         /\ new[1] = old[1]
         /\ \A i \in 1..100 : new[i + 1] = old[Len(old) - 100 + i]
         /\ ~overlap'[t] =>
              /\ new[100] = Turn("user", Trimmed(data[t].message))
              /\ new[101] = Turn("assistant", Concat(upstream[t]))

C10_TrimKeeps101 == [][C10_Step]_vars

C10_Witness ==
  \E t \in Threads :
    /\ pc[t] = "done" /\ path[t] = "ok" /\ ~overlap[t]
    /\ user_histories[user_id[t]] = Obj("trim", serial[t])
    /\ Len(StoredList(user_id[t])) = 101

\* C11: in every reachable state, every history in the store is non-empty and
\* its first element is the system turn holding the fixed template.
C11_SystemFirst ==
  \A u \in UserIds : user_histories[u] # NoObj =>
    /\ StoredList(u) # <<>>
    /\ StoredList(u)[1] = Turn("system", system_content)

\* a history rebuilt from the default list of line 247 after a reset
C11_Witness ==
  /\ resets = 1
  /\ \E u \in UserIds, n \in 1..MaxAsks :
       /\ user_histories[u] = Obj("dflt", n)
       /\ StoredList(u) = << SystemTurn, Turn("assistant", Fragment(1)) >>

\* C12: once the client has disconnected, the request takes no further
\* fragment from the upstream and emits nothing more (no diagnostic); the text
\* received so far is stored as the assistant turn when there is some, and
\* nothing is stored when there is none.
C12_Inv ==
  \A t \in Threads : path[t] = "cancel" =>
    /\ emitted[t] = upstream[t]
    /\ \A i \in 1..Len(emitted[t]) : ~IsDiagnostic(emitted[t][i])
    /\ (pc[t] = "done" /\ ~overlap[t]) =>
         IF upstream[t] # <<>>
           THEN EndsWith(StoredList(user_id[t]),
                         << Turn("user", Trimmed(data[t].message)),
                            Turn("assistant", Concat(upstream[t])) >>)
           ELSE /\ "assistant" \notin wrote[t]
                /\ EndsWith(StoredList(user_id[t]),
                            << Turn("user", Trimmed(data[t].message)) >>)

C12_Step ==
  \A t \in Threads : (path[t] = "cancel" /\ pc[t] # "done") =>
    /\ upstream'[t] = upstream[t]
    /\ emitted'[t] = emitted[t]
    /\ pc'[t] \in {pc[t], "L250", "done"}

C12_CancelCommits == [](C12_Inv) /\ [][C12_Step]_vars

\* a disconnect after the first of two fragments
C12_Witness ==
  \E t \in Threads :
    /\ path[t] = "cancel" /\ pc[t] = "done" /\ ~overlap[t]
    /\ upstream[t] = << Fragment(1) >>
    /\ EndsWith(StoredList(user_id[t]), << Turn("assistant", Fragment(1)) >>)

\* C13: between the store of its user turn and the end of its stream a
\* request changes nothing in the history store, whatever it emits; it has
\* stored no assistant turn while its stream runs.
C13_Inv ==
  \A t \in Threads : pc[t] \in {"L256", "L224"} => wrote[t] = {"user"}

C13_Step ==
  \A t \in Threads :
    ( /\ pc[t] \in {"L256", "L224"}
      /\ << pc[t], upstream[t], emitted[t], called[t], path[t], partial_answer[t] >>'
           # << pc[t], upstream[t], emitted[t], called[t], path[t], partial_answer[t] >> )
    => /\ user_histories' = user_histories
       /\ StoreView' = StoreView

C13_NoIncrementalCommit == [](C13_Inv) /\ [][C13_Step]_vars

C13_Witness ==
  \E t \in Threads :
    /\ pc[t] = "L224" /\ Len(emitted[t]) = MaxFragments /\ ~overlap[t]
    /\ EndsWith(StoredList(user_id[t]), << Turn("user", Trimmed(data[t].message)) >>)

\* C14: every stream opened by ask reaches its end; an upstream failure does
\* not abort the request: the response stays the 200 stream, and its last
\* fragment, and only that one, is the diagnostic.
C14_Inv ==
  \A t \in Threads : path[t] = "error" =>
    /\ status[t] = 200
    /\ emitted[t] # <<>>
    /\ \A i \in 1..Len(emitted[t]) : IsDiagnostic(emitted[t][i]) <=> i = Len(emitted[t])

C14_StreamEnds ==
  /\ [](C14_Inv)
  /\ \A t \in Threads : (pc[t] \in {"L256", "L224", "L245", "L250"}) ~> (pc[t] = "done")

C14_Witness ==
  \E t \in Threads :
    /\ pc[t] = "done" /\ path[t] = "error" /\ status[t] = 200
    /\ Len(emitted[t]) = 2 /\ IsDiagnostic(emitted[t][2])

\* C15: requests of one user are not serialized.  A request appends its user
\* turn to a private copy of the stored list, made without touching the store,
\* and later stores that copy over whatever the store holds by then (last
\* write wins); the state in which the user turn of another request is lost
\* that way is reachable (C15_Witness).
C15_Step ==
  \A t \in Threads :
    /\ (pc[t] = "L205" /\ pc'[t] = "L211") =>
         /\ heap'[history'[t]] = Append(StoredList(user_id[t]), Turn("user", user_message[t]))
         /\ history'[t] \notin Range(user_histories')
         /\ StoreView' = StoreView
    /\ (pc[t] = "L211" /\ pc'[t] = "L256") =>
         /\ user_histories'[user_id[t]] = history[t]
         /\ StoredList(user_id[t])' = heap[history[t]]

C15_LastWriteWins == [][C15_Step]_vars

\* two requests of user NumUsers, whose history had 3 entries, have both
\* stored their user turn, no reset was made, and the history has 4 entries
C15_Witness ==
  \E t \in Threads : \E q \in Threads \ {t} :
    /\ user_id[t] = NumUsers /\ user_id[q] = NumUsers /\ resets = 0
    /\ pc[t] = "L256" /\ pc[q] = "L256"
    /\ wrote[t] = {"user"} /\ wrote[q] = {"user"}
    /\ StoredList(NumUsers) = Append(PriorHistory(3), Turn("user", Trimmed(data[t].message)))

\* C16 as stated: a history that a reset removed while a request of the user
\* was streaming stays absent until the next ask creates it: no step of the
\* streaming request (the rest of its stream, its commit) puts a list under
\* the key again.
C16_Created ==
  \A t \in Threads :
    ( /\ pc[t] \in {"L224", "L245", "L250"} /\ pc'[t] # pc[t]
      /\ user_histories[user_id[t]] = NoObj )
    => user_histories'[user_id[t]] = NoObj

C16_AsStated == [][C16_Created]_vars

\* C17: a stream ends in one way only, and the commit step (the finally block)
\* is entered once, at that end, and left for good; the request whose stream
\* has started finishes through it.  What it leaves in the store (no other
\* request of the user running) is the user turn followed by one assistant
\* turn, or the user turn alone when no text came: never two assistant turns.
C17_Inv ==
  \A t \in Threads :
    /\ pc[t] \in {"L245", "L250"} => path[t] \in {"ok", "error", "cancel"}
    /\ pc[t] \in {"L256", "L224"} => path[t] = ""
    /\ (pc[t] = "done" /\ path[t] # "" /\ ~overlap[t]) =>
         IF partial_answer[t] # <<>>
           THEN EndsWith(StoredList(user_id[t]),
                         << Turn("user", user_message[t]),
                            Turn("assistant", partial_answer[t]) >>)
           ELSE EndsWith(StoredList(user_id[t]), << Turn("user", user_message[t]) >>)

C17_Step ==
  \A t \in Threads :
    /\ (pc'[t] = "L245" /\ pc[t] # "L245") => (pc[t] \in {"L256", "L224"} /\ path[t] = "")
    /\ pc[t] = "L245" => pc'[t] \in {"L245", "L250", "done"}
    /\ pc[t] = "L250" => pc'[t] \in {"L250", "done"}
    /\ pc[t] = "done" => pc'[t] \in {"done", "idle"}
    /\ (pc'[t] = "done" /\ pc[t] # "done" /\ called[t]) => pc[t] \in {"L245", "L250"}
    /\ (path[t] # "" /\ pc'[t] # "idle") => path'[t] = path[t]

C17_CommitOnce == [](C17_Inv) /\ [][C17_Step]_vars

\* a cancelled stream and one that ended or failed, each with its one
\* assistant turn stored
C17_Witness ==
  \E t \in Threads :
    /\ pc[t] = "done" /\ path[t] = "cancel" /\ ~overlap[t] /\ Len(upstream[t]) = MaxFragments
    /\ EndsWith(StoredList(user_id[t]),
                << Turn("user", user_message[t]), Turn("assistant", partial_answer[t]) >>)
    /\ \E q \in Threads \ {t} :
         /\ pc[q] = "done" /\ path[q] \in {"ok", "error"} /\ ~overlap[q]
         /\ partial_answer[q] # <<>>
         /\ EndsWith(StoredList(user_id[q]),
                     << Turn("user", user_message[q]), Turn("assistant", partial_answer[q]) >>)

\* C18: the history of a user changes only in a step of a request of that
\* user or in a reset of that user, which changes no other history; a request
\* rejected before it has a user id, a fragment received, and a reset without
\* a user id or with one that has no history change no history at all.
C18_Step ==
  /\ \A u \in UserIds :
       (StoreView'[u] # StoreView[u] \/ user_histories'[u] # user_histories[u]) =>
         \/ \E t \in Threads : pc'[t] # pc[t] /\ user_id[t] = u
         \/ /\ resets' # resets
            /\ user_histories[u] # NoObj /\ user_histories'[u] = NoObj
            /\ \A v \in UserIds \ {u} :
                 user_histories'[v] = user_histories[v] /\ StoreView'[v] = StoreView[v]
  /\ (resets' = resets /\ pc' = pc) =>
       (user_histories' = user_histories /\ StoreView' = StoreView)

C18_Isolated == [][C18_Step]_vars

\* user 1 has completed an ask, trim included, while a request of user
\* NumUsers streams: the history of NumUsers is its old one plus its user turn
C18_Witness ==
  \E t \in Threads : \E q \in Threads \ {t} :
    /\ user_id[t] = 1 /\ pc[t] = "done" /\ user_histories[1] = Obj("trim", serial[t])
    /\ user_id[q] = NumUsers /\ pc[q] = "L224" /\ serial[q] < serial[t]
    /\ StoredList(NumUsers) = Append(PriorHistory(3), Turn("user", user_message[q]))

\* every assistant turn of h but those at the positions in free follows a user turn
Paired(h, free) ==
  \A i \in 1..Len(h) : (h[i].role = "assistant" /\ i \notin free) =>
    (i > 1 /\ h[i - 1].role = "user")

\* C19 as stated: with the requests of a user handled one at a time, every
\* assistant turn of every stored history follows a user turn.
C19_AsStated == \A u \in UserIds : Paired(StoredList(u), {})

\* C19 amended: the same, but for the entry after the system turn of a
\* history that went through the trim, which may be an assistant turn cut
\* from its user turn.
C19_PairedButAfterTrim ==
  \A u \in UserIds :
    Paired(StoredList(u), IF Len(StoredList(u)) > 100 THEN {2} ELSE {})

\* a history just trimmed to 101 entries whose second entry is an assistant
\* turn, every other assistant turn following a user turn
C19_Witness ==
  \E u \in UserIds, n \in 1..MaxAsks :
    /\ user_histories[u] = Obj("trim", n) /\ Len(StoredList(u)) = 101
    /\ StoredList(u)[2].role = "assistant"
    /\ Paired(StoredList(u), {2})

====
